---- MODULE Spec2Model ----
(***************************************************************************)
(* Model of references/my-spy.py: the job-vacancy collection script.       *)
(*                                                                         *)
(* A text (Python str) is a sequence of Unicode code points, so that       *)
(* lower(), strip(), split(), substring tests and the regular expressions  *)
(* of the script are computed on characters.  A posting (one row of the    *)
(* scraper's table, read through job.get(key, default)) is a function from *)
(* the keys it has to texts; an absent field is a key outside its domain.  *)
(***************************************************************************)
EXTENDS Integers, Sequences, FiniteSets, TLC

VARIABLES
  env,                \* os.environ: variable name -> value, unset names outside the domain
  fs,                 \* the file system: existing directories, their files and subdirectories
  fs0,                \* the file system as it was when main started
  pc,                 \* position of the running function
  stderr,             \* lines printed to sys.stderr
  exit_code,          \* Running, or the status the process ended with
  console,            \* lines printed to stdout, in order
  skip_filenames,     \* main: snapshot of the file names of SKIP_DIR
  current_filenames,  \* main: snapshot of the file names of CURRENT_DIR
  ci,                 \* scrape_all: number of scrape_from_country calls made
  scraped,            \* rows the scraper has returned so far in this run
  raw,                \* scrape_from_country: what scrape_jobs returned to the latest call
  all_jobs,           \* scrape_all: the filtered batches, one per call
  jobs,               \* main: the deduplicated result of scrape_all
  ji,                 \* main: postings of jobs already handled by the write loop
  writes,             \* every open(filepath, 'w') made: name and whether the path existed
  input,              \* argument of the function under study (function-level specifications)
  output              \* its return value

vars == << env, fs, fs0, pc, stderr, exit_code, console, skip_filenames,
           current_filenames, ci, scraped, raw, all_jobs, jobs, ji, writes,
           input, output >>

-----------------------------------------------------------------------------
(* Bounds of the model. *)

\* longest description text explored for clean_description
MaxDescLen == 6

\* longest company / title / site text explored for generate_filename
MaxFieldLen == 1

\* longest batch handed to filter_jobs_by_stopwords on its own
MaxBatch == 2

\* how many leading entries of QUERIES the acquisition loop of the model runs over
NumQueries == 1

\* most rows the scraper returns, in total, during one run
MaxJobs == 2

-----------------------------------------------------------------------------
(* Characters and texts. *)

\* '\n', '\r', ' ' and the characters the regular expression of generate_filename removes
NL == 10
CR == 13
SP == 32
IllegalChars == {92, 47, 58, 42, 63, 34, 60, 62, 124}   \* \ / : * ? " < > |

\* str.isspace: what strip() and rstrip() remove
IsSpace(c) ==
  c \in (9..13) \cup (28..32) \cup {133, 160, 5760} \cup (8192..8202)
        \cup {8232, 8233, 8239, 8287, 12288}

\* str.lower on one character: Latin A-Z, Cyrillic U+0400-U+042F and U+0490
Lower(c) ==
  IF c \in 65..90 THEN c + 32
  ELSE IF c \in 1040..1071 THEN c + 32
  ELSE IF c \in 1024..1039 THEN c + 80
  ELSE IF c = 1168 THEN 1169
  ELSE c

LowerText(t) == [i \in 1..Len(t) |-> Lower(t[i])]

\* Python's "needle in hay", both sides lowered (lines 267-268)
ContainsLower(hay, needle) ==
  \E i \in 0..(Len(hay) - Len(needle)) :
    \A j \in 1..Len(needle) : Lower(hay[i + j]) = Lower(needle[j])

RECURSIVE RStrip(_)
RStrip(t) ==
  IF t # << >> /\ IsSpace(t[Len(t)]) THEN RStrip(SubSeq(t, 1, Len(t) - 1)) ELSE t

RECURSIVE LStrip(_)
LStrip(t) ==
  IF t # << >> /\ IsSpace(t[1]) THEN LStrip(Tail(t)) ELSE t

Strip(t) == LStrip(RStrip(t))

\* str.replace(ch, repl) for a one-character pattern
RECURSIVE Replace(_, _, _)
Replace(t, ch, repl) ==
  IF t = << >> THEN << >>
  ELSE (IF Head(t) = ch THEN repl ELSE << Head(t) >>) \o Replace(Tail(t), ch, repl)

\* str.split(sep) for a one-character separator
RECURSIVE Split(_, _)
Split(t, sep) ==
  IF \A i \in 1..Len(t) : t[i] # sep THEN << t >>
  ELSE LET i == CHOOSE k \in 1..Len(t) :
                   t[k] = sep /\ \A j \in 1..(k - 1) : t[j] # sep
       IN  << SubSeq(t, 1, i - 1) >> \o Split(SubSeq(t, i + 1, Len(t)), sep)

\* sep.join(lines)
RECURSIVE Join(_, _)
Join(lines, sep) ==
  IF lines = << >> THEN << >>
  ELSE IF Len(lines) = 1 THEN lines[1]
  ELSE lines[1] \o << sep >> \o Join(Tail(lines), sep)

\* job.get(key, default)
Get(job, key, default) == IF key \in DOMAIN job THEN job[key] ELSE default

\* all texts over an alphabet up to a length
RECURSIVE TextsUpTo(_, _)
TextsUpTo(alphabet, n) ==
  IF n = 0 THEN { << >> }
  ELSE LET shorter == TextsUpTo(alphabet, n - 1)
       IN  shorter \cup { Append(t, c) : t \in shorter, c \in alphabet }

\* all sequences over a set up to a length
RECURSIVE SeqsUpTo(_, _)
SeqsUpTo(S, n) ==
  IF n = 0 THEN { << >> }
  ELSE LET shorter == SeqsUpTo(S, n - 1)
       IN  shorter \cup { Append(t, x) : t \in shorter, x \in S }

-----------------------------------------------------------------------------
(* Configuration of the script (lines 18-50). *)

COMPANY_STOPWORDS ==
  << <<1050, 1080, 1111, 1074, 1089, 1090, 1072, 1088>>,   \* \u041a\u0438\u0457\u0432\u0441\u0442\u0430\u0440
     <<65, 108, 108, 83, 116, 97, 114, 115, 45, 73, 84>>,   \* AllStars-IT
     <<67, 97, 112, 103, 101, 109, 105, 110, 105>>,   \* Capgemini
     <<69, 110, 97, 118, 97, 116, 101>>,   \* Enavate
     <<66, 105, 110, 111, 116, 101, 108>>,   \* Binotel
     <<67, 114, 101, 97, 116, 105, 111>>,   \* Creatio
     <<68, 114, 105, 112, 105, 102, 121, 46, 105, 111>>,   \* Dripify.io
     <<71, 111, 82, 101, 101, 108>>,   \* GoReel
     <<71, 114, 105, 100, 32, 68, 121, 110, 97, 109, 105, 99, 115>>,   \* Grid Dynamics
     <<80, 114, 97, 103, 109, 97, 116, 105, 107, 101>>,   \* Pragmatike
     <<83, 105, 105, 32, 80, 111, 108, 97, 110, 100>>,   \* Sii Poland
     <<83, 107, 121, 108, 117, 109>>,   \* Skylum
     <<83, 117, 112, 112, 111, 114, 116, 89, 111, 117, 114, 65, 112, 112>>,   \* SupportYourApp
     <<73, 110, 116, 101, 108, 108, 105, 97, 115>>,   \* Intellias
     <<69, 80, 65, 77, 32, 83, 121, 115, 116, 101, 109, 115>>,   \* EPAM Systems
     <<68, 114, 97, 102, 116, 75, 105, 110, 103, 115>>,   \* DraftKings
     <<68, 101, 101, 108>>,   \* Deel
     <<65, 117, 116, 111, 109, 97, 116, 45, 105, 116>>,   \* Automat-it
     <<87, 105, 120, 46, 99, 111, 109, 44, 32, 73, 110, 99, 46>>,   \* Wix.com, Inc.
     <<110, 56, 110>>,   \* n8n
     <<101, 100, 117, 107, 105>>,   \* eduki
     <<80, 97, 121, 65, 100, 109, 105, 116>>,   \* PayAdmit
     <<67, 111, 109, 112, 101, 116, 101, 114, 97>> >>   \* Competera

TITLE_STOPWORDS ==
  << <<73, 110, 116, 101, 114, 110>>,   \* Intern
     <<74, 117, 110, 105, 111, 114>>,   \* Junior
     <<77, 105, 100, 100, 108, 101>>,   \* Middle
     <<80, 121, 116, 104, 111, 110>>,   \* Python
     <<74, 97, 118, 97>>,   \* Java
     <<70, 117, 108, 108, 32, 83, 116, 97, 99, 107>>,   \* Full Stack
     <<70, 117, 108, 108, 45, 83, 116, 97, 99, 107>>,   \* Full-Stack
     <<46, 78, 101, 116>>,   \* .Net
     <<67, 43, 43>>,   \* C++
     <<65, 110, 103, 117, 108, 97, 114>>,   \* Angular
     <<82, 101, 97, 99, 116>>,   \* React
     <<110, 111, 100, 101, 46, 106, 115>>,   \* node.js
     <<87, 111, 114, 100, 80, 114, 101, 115, 115>>,   \* WordPress
     <<80, 114, 111, 100, 117, 99, 116, 32, 77, 97, 110, 97, 103, 101, 114>>,   \* Product Manager
     <<68, 97, 116, 97>>,   \* Data
     <<66, 97, 99, 107, 101, 110, 100>>,   \* Backend
     <<81, 65>>,   \* QA
     <<77, 97, 110, 97, 103, 101, 114>>,   \* Manager
     <<70, 114, 111, 110, 116, 101, 110, 100>>,   \* Frontend
     <<65, 100, 109, 105, 110, 105, 115, 116, 114, 97, 116, 111, 114>>,   \* Administrator
     <<70, 114, 111, 110, 116, 45, 101, 110, 100>>,   \* Front-end
     <<83, 111, 102, 116, 119, 97, 114, 101>>,   \* Software
     <<83, 101, 99, 117, 114, 105, 116, 121>>,   \* Security
     <<84, 101, 115, 116, 105, 110, 103>>,   \* Testing
     <<65, 122, 117, 114, 101>>,   \* Azure
     <<112, 97, 114, 116, 45, 116, 105, 109, 101>>,   \* part-time
     <<68, 101, 115, 105, 103, 110, 101, 114>>,   \* Designer
     <<80, 114, 111, 100, 117, 99, 116>>,   \* Product
     <<84, 101, 115, 116>>,   \* Test
     <<81, 117, 97, 108, 105, 116, 121>>,   \* Quality
     <<68, 101, 118, 101, 108, 111, 112, 101, 114>>,   \* Developer
     <<68, 101, 118, 101, 108, 111, 112, 109, 101, 110, 116>>,   \* Development
     <<65, 110, 97, 108, 121, 115, 116>>,   \* Analyst
     <<79, 119, 110, 101, 114>>,   \* Owner
     <<65, 114, 116, 105, 115, 116>> >>   \* Artist

DESCRIPTION_STOPWORDS ==
  << <<80, 114, 101, 45, 73, 110, 116, 101, 114, 109, 101, 100, 105, 97, 116, 101>>,   \* Pre-Intermediate
     <<70, 108, 117, 101, 110, 116>>,   \* Fluent
     <<105, 71, 97, 109, 105, 110, 103>> >>   \* iGaming
\* the leading NumQueries entries of QUERIES (line 19):
\* "devops", "devops engineer", "infrastructure engineer", "platform engineer",
\* "cto OR chief technology officer", "head of engineering"
QUERIES ==
  SubSeq(<< "devops", "devops engineer", "infrastructure engineer",
            "platform engineer", "cto OR chief technology officer",
            "head of engineering" >>, 1, NumQueries)

\* scrape_all: sources, and the four calls of one loop iteration with their
\* filter_language argument
Sources ==
  << <<108, 105, 110, 107, 101, 100, 105, 110>>,   \* linkedin
     <<105, 110, 100, 101, 101, 100>> >>           \* indeed

Countries ==
  << [country |-> "Ukraine",   filter_language |-> FALSE],
     [country |-> "Latvia",    filter_language |-> TRUE],
     [country |-> "Lithuania", filter_language |-> TRUE],
     [country |-> "Cyprus",    filter_language |-> TRUE] >>

Unknown == <<85, 110, 107, 110, 111, 119, 110>>   \* Unknown
Dash    == <<32, 45, 32>>                         \* " - "
DotMd   == <<46, 109, 100>>                       \* .md

-----------------------------------------------------------------------------
(* generate_filename (lines 66-69). *)

FilenameTitle(job) ==
  Get(job, "company", Unknown) \o Dash \o Get(job, "title", Unknown)
    \o Dash \o Get(job, "site", Unknown)

\* re.sub(r'[\\/:*?"<>|]', '', title)
ReSubIllegal(t) == SelectSeq(t, LAMBDA c : c \notin IllegalChars)

\* a file name that is not trimmed
generate_filename_NoStrip(job) ==
  Replace(Replace(ReSubIllegal(FilenameTitle(job)), NL, << SP >>), CR, << >>) \o DotMd

generate_filename(job) ==
  Strip(Replace(Replace(ReSubIllegal(FilenameTitle(job)), NL, << SP >>), CR, << >>))
    \o DotMd

-----------------------------------------------------------------------------
(* clean_description (lines 71-92). *)

IsBlank(line) == Strip(line) = << >>

\* lines 80-81: while lines and not lines[0].strip(): lines.pop(0)
RECURSIVE PopLeading(_)
PopLeading(lines) ==
  IF lines # << >> /\ IsBlank(Head(lines)) THEN PopLeading(Tail(lines)) ELSE lines

\* lines 82-83: while lines and not lines[-1].strip(): lines.pop()
RECURSIVE PopTrailing(_)
PopTrailing(lines) ==
  IF lines # << >> /\ IsBlank(lines[Len(lines)])
  THEN PopTrailing(SubSeq(lines, 1, Len(lines) - 1))
  ELSE lines

\* a loop that appends every line
CollapseLoop_KeepsAll(lines, prev_empty, result) == result \o lines

\* lines 85-91: the loop with prev_empty
RECURSIVE CollapseLoop(_, _, _)
CollapseLoop(lines, prev_empty, result) ==
  IF lines = << >> THEN result
  ELSE LET line     == Head(lines)
           is_empty == IsBlank(line)
       IN  CollapseLoop(Tail(lines), is_empty,
                        IF ~(is_empty /\ prev_empty) THEN Append(result, line)
                        ELSE result)

clean_description(description) ==
  IF description = << >> THEN << >>
  ELSE LET lines    == Split(description, NL)
           stripped == [i \in 1..Len(lines) |-> RStrip(lines[i])]
           trimmed  == PopTrailing(PopLeading(stripped))
       IN  Join(CollapseLoop(trimmed, FALSE, << >>), NL)

-----------------------------------------------------------------------------
(* vacancy_to_markdown (lines 94-129): the document, field by field.  The two *)
(* dates are today's date and the fixed labels are part of the template.     *)

vacancy_to_markdown(job, search_info) ==
  [ title       |-> Get(job, "company", Unknown) \o Dash \o Get(job, "title", Unknown),
    url         |-> Get(job, "job_url", << >>),
    company     |-> Get(job, "company", << >>),
    position    |-> Get(job, "title", << >>),
    location    |-> Get(job, "location", << >>),
    site        |-> Get(job, "site", << >>),
    search      |-> search_info,
    date_posted |-> Get(job, "date_posted", << >>),
    description |-> clean_description(Get(job, "description", << >>)) ]

-----------------------------------------------------------------------------
(* contains_stopword and filter_jobs_by_stopwords (lines 262-288). *)

\* a stopword test that lowers the stopword and not the text
contains_stopword_CaseSensitive(text, stopwords) ==
  IF text = << >> THEN FALSE
  ELSE \E k \in 1..Len(stopwords) :
         LET n == LowerText(stopwords[k])
         IN  \E i \in 1..(Len(text) - Len(n) + 1) : SubSeq(text, i, i + Len(n) - 1) = n

contains_stopword(text, stopwords) ==
  IF text = << >> THEN FALSE
  ELSE \E k \in 1..Len(stopwords) : ContainsLower(text, stopwords[k])

\* lines 279-283: the condition under which a row is dropped
StopwordHit(job) ==
  \/ contains_stopword(Get(job, "company", << >>), COMPANY_STOPWORDS)
  \/ contains_stopword(Get(job, "title", << >>), TITLE_STOPWORDS)
  \/ contains_stopword(Get(job, "description", << >>), DESCRIPTION_STOPWORDS)

Progress(color, msg, args) == [color |-> color, msg |-> msg, args |-> args]

\* the three values both status lines of the filter show
JobLineArgs(job) ==
  << Get(job, "company", << >>), Get(job, "title", << >>), Get(job, "job_url", << >>) >>

\* line 284: a dropped row, in gray
DroppedLine(job) == Progress("GRAY", "{company} / {title}: {job_url}", JobLineArgs(job))

\* line 287: a kept row, in three colours
KeptLine(job) ==
  Progress("YELLOW GREEN BLUE", "{company} / {title}: {job_url}", JobLineArgs(job))

\* the loop of lines 273-287: the rows returned (jobs) and the lines printed
RECURSIVE filter_jobs_by_stopwords(_)
filter_jobs_by_stopwords(js) ==
  IF js = << >> THEN [jobs |-> << >>, printed |-> << >>]
  ELSE LET job  == Head(js)
           rest == filter_jobs_by_stopwords(Tail(js))
       IN  IF StopwordHit(job)
           THEN [jobs |-> rest.jobs, printed |-> << DroppedLine(job) >> \o rest.printed]
           ELSE [jobs |-> << job >> \o rest.jobs,
                 printed |-> << KeptLine(job) >> \o rest.printed]

-----------------------------------------------------------------------------
(* filter_jobs_by_russian_and_ukrainian_language (lines 290-311). *)

\* the character class of line 304: a-ya, yo, i, yi, ye, ghe, hard and soft sign
RuUaChar(c) == c \in (1072..1103) \cup {1105, 1110, 1111, 1108, 1169, 1098, 1100}

\* line 299
CombinedText(job) ==
  LowerText(Get(job, "company", << >>) \o << SP >> \o Get(job, "title", << >>)
              \o << SP >> \o Get(job, "description", << >>))

\* a heuristic that searches the text as it is, without lowering it
HasRuUa_NoLower(job) ==
  LET t == Get(job, "company", << >>) \o << SP >> \o Get(job, "title", << >>)
             \o << SP >> \o Get(job, "description", << >>)
  IN  \E i \in 1..Len(t) : RuUaChar(t[i])

\* lines 304-307: re.findall found something
HasRuUa(job) == LET t == CombinedText(job) IN \E i \in 1..Len(t) : RuUaChar(t[i])

\* line 309
KeepLine(job) ==
  Progress("GREEN", "KEEP (RU/UA): {company} / {title}",
           << Get(job, "company", << >>), Get(job, "title", << >>) >>)

\* the loop of lines 293-309: the rows returned (jobs) and the lines printed
RECURSIVE filter_jobs_by_russian_and_ukrainian_language(_)
filter_jobs_by_russian_and_ukrainian_language(js) ==
  IF js = << >> THEN [jobs |-> << >>, printed |-> << >>]
  ELSE LET job  == Head(js)
           rest == filter_jobs_by_russian_and_ukrainian_language(Tail(js))
       IN  IF HasRuUa(job)
           THEN [jobs |-> << job >> \o rest.jobs,
                 printed |-> << KeepLine(job) >> \o rest.printed]
           ELSE rest

-----------------------------------------------------------------------------
(* scrape_from_country and scrape_all (lines 183-234). *)

\* line 225: the provenance string, by its four parameters
SearchInfo(country, query, source, filter_language) ==
  [country |-> country, query |-> query, source |-> source,
   filter_language |-> filter_language]

\* line 226: jobs['search_info'] = search_info
Tag(found, search_info) ==
  [i \in 1..Len(found) |->
     [k \in DOMAIN found[i] \cup {"search_info"} |->
        IF k = "search_info" THEN search_info ELSE found[i][k]]]

\* lines 209-234: the rows scrape_from_country returns (jobs) and the lines it
\* prints, given what scrape_jobs found
scrape_from_country(country, query, source, filter_language, found) ==
  LET tagged    == Tag(found, SearchInfo(country, query, source, filter_language))
      stopwords == filter_jobs_by_stopwords(tagged)
      language  == IF filter_language
                   THEN filter_jobs_by_russian_and_ukrainian_language(stopwords.jobs)
                   ELSE [jobs |-> stopwords.jobs, printed |-> << >>]
  IN  [ jobs    |-> language.jobs,
        printed |->
          << Progress("YELLOW", "Scraping {query} from {source} in {country}...",
                      << query, source, country >>),
             Progress("BLUE", "Found {len(jobs)} '{query}' jobs on {source}",
                      << Len(found), query, source >>) >>
          \o stopwords.printed
          \o language.printed
          \o (IF filter_language
              THEN << Progress("BLUE", "After language filtering: {len(jobs)} jobs remain",
                               << Len(language.jobs) >>) >>
              ELSE << >>)
          \o << Progress("BLUE", "Time taken for {query} on {source}: ... seconds",
                         << query, source >>) >> ]

\* lines 188-193: the calls of scrape_all, in order: query, then source, then country
CallsPerQuery == Len(Sources) * Len(Countries)
NumCalls == Len(QUERIES) * CallsPerQuery

Descriptor(k) ==
  LET q == ((k - 1) \div CallsPerQuery) + 1
      s == (((k - 1) % CallsPerQuery) \div Len(Countries)) + 1
      c == ((k - 1) % Len(Countries)) + 1
  IN  [query |-> QUERIES[q], source |-> Sources[s],
       country |-> Countries[c].country,
       filter_language |-> Countries[c].filter_language]

\* pandas' marker of a missing value, as a key of drop_duplicates
NaN == << -1 >>

DupKey(job) == << Get(job, "company", NaN), Get(job, "title", NaN) >>

\* line 195: pd.concat(all_jobs, ignore_index=True)
RECURSIVE Concat(_)
Concat(batches) ==
  IF batches = << >> THEN << >> ELSE Head(batches) \o Concat(Tail(batches))

\* line 196: drop_duplicates(subset=["company", "title"], keep="first")
RECURSIVE DropLoop(_, _)
DropLoop(rows, seen) ==
  IF rows = << >> THEN << >>
  ELSE IF DupKey(Head(rows)) \in seen THEN DropLoop(Tail(rows), seen)
  ELSE << Head(rows) >> \o DropLoop(Tail(rows), seen \cup { DupKey(Head(rows)) })

\* drop_duplicates with keep="last"
drop_duplicates_KeepLast(rows) ==
  LET Reverse(s) == [i \in 1..Len(s) |-> s[Len(s) + 1 - i]]
  IN  Reverse(DropLoop(Reverse(rows), { }))

drop_duplicates(rows) == DropLoop(rows, { })

-----------------------------------------------------------------------------
(* The file system and the environment of one run. *)

Paths == { "/inbox", "/skip", "/current" }

NoFiles == [n \in { } |-> << >>]

\* a dict with one more entry (or one entry replaced)
Put(d, name, value) == [n \in DOMAIN d \cup {name} |-> IF n = name THEN value ELSE d[n]]

\* Path.exists() of directory / name
PathExists(f, dir, name) ==
  dir \in f.exists /\ (name \in DOMAIN f.files[dir] \/ name \in DOMAIN f.subdirs[dir])

\* set(f.name for f in dir.iterdir() if f.is_file())
FileNames(f, dir) == DOMAIN f.files[dir]

\* os.environ.get(name): None for a variable that is not set
None == "<None>"

EnvGet(e, name) == IF name \in DOMAIN e THEN e[name] ELSE None

\* "not value" for what os.environ.get returns: None or the empty string
Falsy(value) == value \in { None, "" }

\* a configuration check that looks at VACANCY_DIR only
ConfigMissing_VacancyOnly(e) == Falsy(EnvGet(e, "VACANCY_DIR"))

\* line 139: not vacancy_dir or not skip_dir
ConfigMissing(e) == Falsy(EnvGet(e, "VACANCY_DIR")) \/ Falsy(EnvGet(e, "SKIP_DIR"))

\* a preparation that creates the directories and unlinks nothing
prepare_dirs_KeepsFiles(f, vacancy_dir, skip_dir) ==
  [ exists  |-> f.exists \cup { vacancy_dir, skip_dir },
    files   |-> f.files,
    subdirs |-> f.subdirs ]

\* lines 175-181: both directories exist afterwards, the files directly inside
\* vacancy_dir are unlinked, its subdirectories stay
prepare_dirs(f, vacancy_dir, skip_dir) ==
  [ exists  |-> f.exists \cup { vacancy_dir, skip_dir },
    files   |-> [f.files EXCEPT ![vacancy_dir] = NoFiles],
    subdirs |-> f.subdirs ]

\* lines 153-155
CurrentSnapshot(e, f) ==
  LET current_dir == EnvGet(e, "CURRENT_DIR")
  IN  IF ~Falsy(current_dir) /\ current_dir \in f.exists
      THEN FileNames(f, current_dir)
      ELSE { }

-----------------------------------------------------------------------------
(* What the model draws for one run: the environment, the directories as   *)
(* main finds them, and the rows the job sites hold.                       *)

FnAcmeCtoLinkedin ==   \* Acme - CTO - linkedin.md
  <<65, 99, 109, 101, 32, 45, 32, 67, 84, 79, 32, 45, 32, 108, 105, 110, 107,
    101, 100, 105, 110, 46, 109, 100>>
FnAcmeCtoIndeed ==     \* Acme - CTO - indeed.md
  <<65, 99, 109, 101, 32, 45, 32, 67, 84, 79, 32, 45, 32, 105, 110, 100, 101,
    101, 100, 46, 109, 100>>
FnOld     == <<111, 108, 100, 46, 109, 100>>        \* old.md
FnArchive == <<97, 114, 99, 104, 105, 118, 101>>    \* archive

\* a document left by an earlier run
StaleDoc == vacancy_to_markdown([title |-> <<111, 108, 100>>], << >>)

MissingDir == [exists |-> FALSE, files |-> NoFiles, subdirs |-> NoFiles]

\* directory contents the run may start from
InboxChoices ==
  { MissingDir,
    [exists |-> TRUE,
     files |-> [n \in {FnAcmeCtoLinkedin, FnOld} |-> StaleDoc],
     subdirs |-> [n \in {FnArchive} |-> << FnOld >>]] }

SkipChoices ==
  { MissingDir,
    [exists |-> TRUE,
     files |-> [n \in {FnAcmeCtoLinkedin} |-> StaleDoc],
     subdirs |-> NoFiles] }

CurrentDir ==
  [exists |-> TRUE,
   files |-> [n \in {FnAcmeCtoLinkedin, FnAcmeCtoIndeed} |-> StaleDoc],
   subdirs |-> NoFiles]

\* CURRENT_DIR: not set although the directory is there, set to a directory
\* that is missing, set to a directory that is there
CurrentChoices ==
  { [value |-> None, dir |-> CurrentDir],
    [value |-> "/current", dir |-> MissingDir],
    [value |-> "/current", dir |-> CurrentDir] }

MkEnv(vacancy, skip, current) ==
  LET v(n) == IF n = "VACANCY_DIR" THEN vacancy ELSE IF n = "SKIP_DIR" THEN skip ELSE current
  IN  [n \in { k \in {"VACANCY_DIR", "SKIP_DIR", "CURRENT_DIR"} : v(k) # None } |-> v(n)]

MkFs(inbox, skip, current) ==
  LET at(p) == IF p = "/inbox" THEN inbox ELSE IF p = "/skip" THEN skip ELSE current
  IN  [ exists  |-> { p \in Paths : at(p).exists },
        files   |-> [p \in Paths |-> at(p).files],
        subdirs |-> [p \in Paths |-> at(p).subdirs] ]

\* scrape_jobs(site_name=[source], ...): the rows a job site may answer with,
\* each row of the site that was asked
SiteRows(source) ==
  IF source = Sources[1]
  THEN { [site |-> Sources[1], company |-> <<65, 99, 109, 101>>,       \* Acme
          title |-> <<67, 84, 79>>, job_url |-> <<97>>],               \* CTO, no description
         [site |-> Sources[1], company |-> <<65, 99, 58, 109, 101>>,   \* Ac:me
          title |-> <<67, 84, 79>>, job_url |-> <<98>>,                \* CTO
          description |-> <<1055, 1056, 1048, 1042, 1030, 1058>>] }    \* upper-case Cyrillic
  ELSE { [site |-> Sources[2], company |-> <<65, 99, 109, 101>>,       \* Acme
          title |-> <<67, 84, 79>>, job_url |-> <<99>>,                \* CTO
          description |-> <<1084, 1086, 1074, 1072>>],                 \* lower-case Cyrillic
         [site |-> Sources[2], company |-> <<68, 69, 69, 76>>,         \* DEEL
          title |-> <<68, 101, 118, 79, 112, 115>>, job_url |-> <<115>>, \* DevOps
          description |-> <<82, 101, 109, 111, 116, 101>>] }           \* Remote

-----------------------------------------------------------------------------
(* main (lines 131-173), step by step. *)

\* exit_code while the process has not ended
Running == -1

PipelineIdle ==
  /\ env = MkEnv(None, None, None)
  /\ fs = MkFs(MissingDir, MissingDir, MissingDir)
  /\ fs0 = fs
  /\ stderr = << >>
  /\ exit_code = Running
  /\ skip_filenames = { }
  /\ current_filenames = { }
  /\ ci = 0
  /\ scraped = 0
  /\ raw = << >>
  /\ all_jobs = << >>
  /\ jobs = << >>
  /\ ji = 0
  /\ writes = << >>

Init ==
  /\ pc = "main"
  /\ \E vacancy \in { None, "", "/inbox" }, skip \in { None, "", "/skip" },
        current \in CurrentChoices, inbox_dir \in InboxChoices, skip_dir \in SkipChoices :
       /\ env = MkEnv(vacancy, skip, current.value)
       /\ fs = MkFs(inbox_dir, skip_dir, current.dir)
  /\ fs0 = fs
  /\ stderr = << >>
  /\ exit_code = Running
  /\ console = << >>
  /\ skip_filenames = { }
  /\ current_filenames = { }
  /\ ci = 0
  /\ scraped = 0
  /\ raw = << >>
  /\ all_jobs = << >>
  /\ jobs = << >>
  /\ ji = 0
  /\ writes = << >>
  /\ input = << >>
  /\ output = << >>

\* lines 135-141: the configuration is missing
ConfigError ==
  /\ pc = "main"
  /\ ConfigMissing(env)
  /\ stderr' = Append(stderr, "Error: VACANCY_DIR and SKIP_DIR environment variables must be set.")
  /\ exit_code' = 1
  /\ pc' = "exited"
  /\ UNCHANGED << env, fs, fs0, console, skip_filenames, current_filenames, ci,
                  scraped, raw, all_jobs, jobs, ji, writes, input, output >>

\* lines 135-145: the configuration is there
ConfigOk ==
  /\ pc = "main"
  /\ ~ConfigMissing(env)
  /\ pc' = "prepare_dirs"
  /\ UNCHANGED << env, fs, fs0, stderr, exit_code, console, skip_filenames,
                  current_filenames, ci, scraped, raw, all_jobs, jobs, ji, writes,
                  input, output >>

\* line 147
PrepareDirs ==
  /\ pc = "prepare_dirs"
  /\ fs' = prepare_dirs(fs, EnvGet(env, "VACANCY_DIR"), EnvGet(env, "SKIP_DIR"))
  /\ pc' = "snapshot"
  /\ UNCHANGED << env, fs0, stderr, exit_code, console, skip_filenames,
                  current_filenames, ci, scraped, raw, all_jobs, jobs, ji, writes,
                  input, output >>

\* lines 150-157 and 185: the two snapshots, then scrape_all starts
Snapshot ==
  /\ pc = "snapshot"
  /\ skip_filenames' = FileNames(fs, EnvGet(env, "SKIP_DIR"))
  /\ current_filenames' = CurrentSnapshot(env, fs)
  /\ console' = Append(console, Progress("BLUE", "Starting to scrape...", << >>))
  /\ pc' = "scrape_all"
  /\ UNCHANGED << env, fs, fs0, stderr, exit_code, ci, scraped, raw, all_jobs, jobs,
                  ji, writes, input, output >>

\* lines 190-193: one call of scrape_from_country; the job site answers with
\* any rows it likes
ScrapeCall ==
  /\ pc = "scrape_all"
  /\ ci < NumCalls
  /\ \E found \in SeqsUpTo(SiteRows(Descriptor(ci + 1).source), MaxJobs - scraped) :
       LET d     == Descriptor(ci + 1)
           res   == scrape_from_country(d.country, d.query, d.source, d.filter_language, found)
       IN  /\ raw' = found
           /\ scraped' = scraped + Len(found)
           /\ all_jobs' = Append(all_jobs, res.jobs)
           /\ console' = console \o res.printed
  /\ ci' = ci + 1
  /\ UNCHANGED << env, fs, fs0, pc, stderr, exit_code, skip_filenames,
                  current_filenames, jobs, ji, writes, input, output >>

\* lines 195-198: concatenate, drop duplicates, return to main
ScrapeFinish ==
  /\ pc = "scrape_all"
  /\ ci = NumCalls
  /\ jobs' = drop_duplicates(Concat(all_jobs))
  /\ console' = Append(console, Progress("BLUE", "Found {len(res)} unique jobs",
                                         << Len(jobs') >>))
  /\ pc' = "write_loop"
  /\ UNCHANGED << env, fs, fs0, stderr, exit_code, skip_filenames, current_filenames,
                  ci, scraped, raw, all_jobs, ji, writes, input, output >>

SkipLine(filename) ==
  Progress("GRAY", "SKIP (already in skip): {filename}", << filename >>)

CurrentLine(filename) ==
  Progress("GRAY", "SKIP (already in current): {filename}", << filename >>)

\* a write gate that also reports the postings it lets through
GatePrints_AlsoOnWrite(filename, skipped, current) ==
  IF filename \in skipped THEN << SkipLine(filename) >>
  ELSE IF filename \in current THEN << CurrentLine(filename) >>
  ELSE << Progress("GREEN", "WRITE: {filename}", << filename >>) >>

\* lines 160-165: what the write gate prints for a file name
GatePrints(filename, skipped, current) ==
  IF filename \in skipped THEN << SkipLine(filename) >>
  ELSE IF filename \in current THEN << CurrentLine(filename) >>
  ELSE << >>

\* a write gate that does not look at the current directory's names
GateOpens_IgnoresCurrent(f, dir, filename, skipped, current) ==
  /\ filename \notin skipped
  /\ ~PathExists(f, dir, filename)

\* a write gate that does not look whether the file is there
GateOpens_NoExistsCheck(f, dir, filename, skipped, current) ==
  /\ filename \notin skipped
  /\ filename \notin current

\* lines 160-167: whether the loop reaches open(filepath, 'w')
GateOpens(f, dir, filename, skipped, current) ==
  /\ filename \notin skipped
  /\ filename \notin current
  /\ ~PathExists(f, dir, filename)

\* lines 158-170: one iteration of the loop over the postings
WriteStep ==
  /\ pc = "write_loop"
  /\ ji < Len(jobs)
  /\ LET job      == jobs[ji + 1]
         filename == generate_filename(job)
         dir      == EnvGet(env, "VACANCY_DIR")
     IN  /\ console' = console \o GatePrints(filename, skip_filenames, current_filenames)
         /\ IF GateOpens(fs, dir, filename, skip_filenames, current_filenames)
            THEN /\ fs' = [fs EXCEPT !.files[dir] =
                             Put(@, filename,
                                 vacancy_to_markdown(job, Get(job, "search_info", << >>)))]
                 /\ writes' = Append(writes,
                                [name |-> filename, existed |-> PathExists(fs, dir, filename)])
            ELSE UNCHANGED << fs, writes >>
  /\ ji' = ji + 1
  /\ UNCHANGED << env, fs0, pc, stderr, exit_code, skip_filenames, current_filenames,
                  ci, scraped, raw, all_jobs, jobs, input, output >>

\* lines 172-173
Finish ==
  /\ pc = "write_loop"
  /\ ji = Len(jobs)
  /\ console' = Append(console, Progress("BLUE", "Total execution time: ... seconds", << >>))
  /\ exit_code' = 0
  /\ pc' = "done"
  /\ UNCHANGED << env, fs, fs0, stderr, skip_filenames, current_filenames, ci,
                  scraped, raw, all_jobs, jobs, ji, writes, input, output >>

Next ==
  \/ ConfigError
  \/ ConfigOk
  \/ PrepareDirs
  \/ Snapshot
  \/ ScrapeCall
  \/ ScrapeFinish
  \/ WriteStep
  \/ Finish

Spec == Init /\ [][Next]_vars

-----------------------------------------------------------------------------
(* clean_description on its own: every text up to MaxDescLen over a letter, *)
(* a space, a line feed and a carriage return, and the example of the       *)
(* description-cleaning test.                                               *)

DescAlphabet == { 97, SP, NL, CR }

\* "\n\nHello\n\n\nWorld\n\n"
DescExample ==
  << 10, 10, 72, 101, 108, 108, 111, 10, 10, 10, 87, 111, 114, 108, 100, 10, 10 >>

DescInputs == TextsUpTo(DescAlphabet, MaxDescLen) \cup { DescExample }

InitClean ==
  /\ pc = "clean_description"
  /\ input \in DescInputs
  /\ output = << >>
  /\ console = << >>
  /\ PipelineIdle

CleanCall ==
  /\ pc = "clean_description"
  /\ output' = clean_description(input)
  /\ pc' = "cleaned"
  /\ UNCHANGED << env, fs, fs0, stderr, exit_code, console, skip_filenames,
                  current_filenames, ci, scraped, raw, all_jobs, jobs, ji, writes, input >>

SpecClean == InitClean /\ [][CleanCall]_vars

-----------------------------------------------------------------------------
(* generate_filename on its own: every posting whose company, title and site *)
(* are absent or a text up to MaxFieldLen over a letter, a space, a line     *)
(* feed, a carriage return and a colon; with and without a description and a *)
(* URL; and one posting whose title holds every character the expression     *)
(* removes.                                                                  *)

FieldAlphabet == { 65, SP, NL, CR, 58 }

Absent == << -1 >>

FieldChoices == TextsUpTo(FieldAlphabet, MaxFieldLen) \cup { Absent }

MkJob(company, title, site, description, job_url) ==
  LET v(k) == CASE k = "company" -> company
                [] k = "title" -> title
                [] k = "site" -> site
                [] k = "description" -> description
                [] OTHER -> job_url
  IN  [k \in { n \in {"company", "title", "site", "description", "job_url"} : v(n) # Absent }
         |-> v(k)]

\* a title with \ / : * ? " < > | between letters
AllIllegalTitle ==
  << 65, 92, 47, 58, 42, 63, 34, 60, 62, 124, 66 >>

FilenameInputs ==
  { MkJob(c, t, s, d, d) : c \in FieldChoices, t \in FieldChoices, s \in FieldChoices,
                           d \in { Absent, << 120 >> } }
    \cup { MkJob(<< 65 >>, AllIllegalTitle, << 66 >>, Absent, Absent) }

InitFilename ==
  /\ pc = "generate_filename"
  /\ input \in FilenameInputs
  /\ output = << >>
  /\ console = << >>
  /\ PipelineIdle

FilenameCall ==
  /\ pc = "generate_filename"
  /\ output' = generate_filename(input)
  /\ pc' = "named"
  /\ UNCHANGED << env, fs, fs0, stderr, exit_code, console, skip_filenames,
                  current_filenames, ci, scraped, raw, all_jobs, jobs, ji, writes, input >>

SpecFilename == InitFilename /\ [][FilenameCall]_vars

-----------------------------------------------------------------------------
(* filter_jobs_by_stopwords on its own: every batch up to MaxBatch of rows   *)
(* whose company, title and description are absent, empty, free of stopwords *)
(* or hold a stopword in another case or inside a longer word.               *)

CompanyChoices ==
  { Absent,
    <<65, 99, 109, 101>>,                  \* Acme
    <<100, 69, 69, 76, 32, 73, 110, 99>> } \* dEEL Inc

TitleChoices ==
  { Absent, << >>,
    <<83, 113, 97, 100>>,                  \* Sqad
    <<68, 101, 101, 108>> }                \* Deel (a company stopword, in the title)

DescriptionChoices ==
  { Absent,
    <<82, 101, 109, 111, 116, 101>>,       \* Remote
    <<73, 71, 65, 77, 73, 78, 71, 33>> }   \* IGAMING!

StopwordRows ==
  { MkJob(c, t, Absent, d, Absent) :
      c \in CompanyChoices, t \in TitleChoices, d \in DescriptionChoices }

InitStopwords ==
  /\ pc = "filter_jobs_by_stopwords"
  /\ input \in SeqsUpTo(StopwordRows, MaxBatch)
  /\ output = << >>
  /\ console = << >>
  /\ PipelineIdle

StopwordsCall ==
  /\ pc = "filter_jobs_by_stopwords"
  /\ output' = filter_jobs_by_stopwords(input).jobs
  /\ console' = console \o filter_jobs_by_stopwords(input).printed
  /\ pc' = "filtered"
  /\ UNCHANGED << env, fs, fs0, stderr, exit_code, skip_filenames, current_filenames,
                  ci, scraped, raw, all_jobs, jobs, ji, writes, input >>

SpecStopwords == InitStopwords /\ [][StopwordsCall]_vars

-----------------------------------------------------------------------------
(* Properties.                                                              *)

Inbox == "/inbox"

InWriteLoop == pc \in { "write_loop", "done" }

\* the file names SKIP_DIR holds on disk
SkipDirNames == IF "/skip" \in fs.exists THEN DOMAIN fs.files["/skip"] ELSE { }

\* the file names CURRENT_DIR holds on disk, when it is configured and exists
CurrentDirNames ==
  IF "CURRENT_DIR" \in DOMAIN env /\ "/current" \in fs.exists
  THEN DOMAIN fs.files["/current"]
  ELSE { }

WrittenNames == { writes[w].name : w \in 1..Len(writes) }

SkipMsg    == "SKIP (already in skip): {filename}"
CurrentMsg == "SKIP (already in current): {filename}"

Reported(msg, filename) ==
  \E l \in 1..Len(console) : console[l].msg = msg /\ console[l].args = << filename >>

\* C1: a posting whose file name is in SKIP_DIR, or in a configured and
\* existing CURRENT_DIR, is never written to the output directory, and the
\* skip is reported: as "already in skip" when the name is in SKIP_DIR,
\* otherwise as "already in current".
C1_WriteGate ==
  InWriteLoop =>
    \A i \in 1..ji :
      LET filename == generate_filename(jobs[i])
      IN  filename \in SkipDirNames \cup CurrentDirNames =>
            /\ filename \notin DOMAIN fs.files[Inbox]
            /\ filename \notin WrittenNames
            /\ Reported(IF filename \in SkipDirNames THEN SkipMsg ELSE CurrentMsg, filename)
            /\ ~Reported(IF filename \in SkipDirNames THEN CurrentMsg ELSE SkipMsg, filename)

\* C1 happens: a finished run that skipped one posting for SKIP_DIR and
\* another one for CURRENT_DIR
C1_Witness ==
  /\ pc = "done"
  /\ \E i \in 1..ji, j \in 1..ji :
       /\ generate_filename(jobs[i]) \in skip_filenames
       /\ generate_filename(jobs[j]) \in current_filenames \ skip_filenames

\* C2: no file name is opened for writing twice in a run, no open() hits a
\* path that existed, and the files of the skip and current directories and
\* the subdirectories are as they were.
C2_WrittenOnce ==
  /\ \A a \in 1..Len(writes), b \in 1..Len(writes) :
       a # b => writes[a].name # writes[b].name
  /\ \A a \in 1..Len(writes) : ~writes[a].existed
  /\ fs.files["/skip"] = fs0.files["/skip"]
  /\ fs.files["/current"] = fs0.files["/current"]
  /\ fs.subdirs = fs0.subdirs

\* C2 happens: two surviving postings with different (company, title) and
\* the same file name were both handled and one file was written
C2_Witness ==
  /\ pc = "done"
  /\ Len(writes) = 1
  /\ \E i \in 1..Len(jobs), j \in 1..Len(jobs) :
       /\ i < j
       /\ DupKey(jobs[i]) # DupKey(jobs[j])
       /\ generate_filename(jobs[i]) = generate_filename(jobs[j])
       /\ writes[1].name = generate_filename(jobs[i])

\* C3: nothing is written before the reset; after a finished run the files of
\* the output directory are exactly the files written in this run, each for a
\* surviving posting, no stale document is left, and the subdirectories of
\* the output directory are as they were.
C3_Reset ==
  /\ pc \in { "main", "prepare_dirs", "exited" } => writes = << >>
  /\ pc \in { "snapshot", "scrape_all" } => DOMAIN fs.files[Inbox] = { }
  /\ pc = "done" =>
       /\ DOMAIN fs.files[Inbox] = WrittenNames
       /\ \A n \in DOMAIN fs.files[Inbox] :
            /\ fs.files[Inbox][n] # StaleDoc
            /\ \E i \in 1..Len(jobs) : generate_filename(jobs[i]) = n
       /\ fs.subdirs[Inbox] = fs0.subdirs[Inbox]

\* C3 happens: a finished run that found stale files and a subdirectory and
\* wrote a file under the name of a stale one
C3_Witness ==
  /\ pc = "done"
  /\ FnOld \in DOMAIN fs0.files[Inbox]
  /\ FnAcmeCtoLinkedin \in DOMAIN fs0.files[Inbox]
  /\ FnArchive \in DOMAIN fs0.subdirs[Inbox]
  /\ FnAcmeCtoLinkedin \in WrittenNames

\* VACANCY_DIR or SKIP_DIR is not set, or is empty
RequiredMissing ==
  \E n \in { "VACANCY_DIR", "SKIP_DIR" } : IF n \in DOMAIN env THEN env[n] = "" ELSE TRUE

\* C4: with VACANCY_DIR or SKIP_DIR missing, main ends with a non-zero status
\* and one diagnostic on stderr, and the file system is untouched: no
\* directory created, no file deleted or written, no acquisition call made.
C4_ConfigError ==
  RequiredMissing =>
    /\ pc \in { "main", "exited" }
    /\ fs = fs0
    /\ ci = 0
    /\ writes = << >>
    /\ pc = "exited" => exit_code \notin { Running, 0 } /\ Len(stderr) = 1
    /\ pc = "main" => exit_code = Running /\ stderr = << >>

\* C4 happens: main has exited for a missing SKIP_DIR, with VACANCY_DIR set
\* and stale files in the output directory
C4_Witness ==
  /\ pc = "exited"
  /\ "VACANCY_DIR" \in DOMAIN env
  /\ env["VACANCY_DIR"] = "/inbox"
  /\ "SKIP_DIR" \notin DOMAIN env
  /\ FnOld \in DOMAIN fs.files[Inbox]

SamePair(a, b) == a.company = b.company /\ a.title = b.title

\* the rows whose (company, title) no earlier row has
FirstOfPair(rows) ==
  { i \in 1..Len(rows) : \A j \in 1..(i - 1) : ~SamePair(rows[j], rows[i]) }

\* the claimed place of a call in the acquisition order
ClaimedCountryOrder == << "Ukraine", "Latvia", "Lithuania", "Cyprus" >>

ClaimedRank(info) ==
  LET q == CHOOSE x \in 1..Len(QUERIES) : QUERIES[x] = info.query
      s == CHOOSE x \in 1..Len(Sources) : Sources[x] = info.source
      c == CHOOSE x \in 1..4 : ClaimedCountryOrder[x] = info.country
  IN  ((q - 1) * Len(Sources) + (s - 1)) * 4 + c

FieldOrEmpty(job, key) == IF key \in DOMAIN job THEN job[key] ELSE << >>

\* needle occurs in hay when both are lowered
OccursIgnoringCase(hay, needle) ==
  LET h == LowerText(hay)
      n == LowerText(needle)
  IN  \E i \in 1..(Len(h) - Len(n) + 1) : SubSeq(h, i, i + Len(n) - 1) = n

\* some stopword of a list occurs in a field
ListedIn(job, key, stopwords) ==
  \E k \in 1..Len(stopwords) : OccursIgnoringCase(FieldOrEmpty(job, key), stopwords[k])

Disqualified(job) ==
  \/ ListedIn(job, "company", COMPANY_STOPWORDS)
  \/ ListedIn(job, "title", TITLE_STOPWORDS)
  \/ ListedIn(job, "description", DESCRIPTION_STOPWORDS)

\* C6: filter_jobs_by_stopwords returns, in input order, exactly the rows in
\* which no company stopword occurs in the company, no title stopword in the
\* title and no description stopword in the description, case ignored and an
\* absent field taken as empty.
C6_StopwordFilter ==
  pc = "filtered" => output = SelectSeq(input, LAMBDA job : ~Disqualified(job))

\* C6 happens: of two rows the one without a title is kept and the one whose
\* company holds "Deel" in another case is dropped
C6_Witness ==
  /\ pc = "filtered"
  /\ Len(input) = 2
  /\ "title" \notin DOMAIN input[1]
  /\ "description" \notin DOMAIN input[1]
  /\ "company" \in DOMAIN input[2]
  /\ input[2].company = <<100, 69, 69, 76, 32, 73, 110, 99>>
  /\ output = << input[1] >>

\* a letter of the heuristic's set, in either case
RuUaLetter(c) ==
  \/ c \in 1072..1103 \/ c \in 1040..1071      \* a-ya, A-YA
  \/ c \in { 1105, 1025 }                      \* yo
  \/ c \in { 1110, 1030 }                      \* i
  \/ c \in { 1111, 1031 }                      \* yi
  \/ c \in { 1108, 1028 }                      \* ye
  \/ c \in { 1169, 1168 }                      \* ghe

LooksRuUa(job) ==
  \E key \in { "company", "title", "description" } \cap DOMAIN job :
    \E i \in 1..Len(job[key]) : RuUaLetter(job[key][i])

Untagged(rows) ==
  [i \in 1..Len(rows) |-> [k \in DOMAIN rows[i] \ { "search_info" } |-> rows[i][k]]]

\* the country of the latest call, by the order of the four calls of an iteration
LatestCountry == ClaimedCountryOrder[((ci - 1) % 4) + 1]

\* C7: the batch a call adds holds the rows of the scraper's answer that pass
\* the stopword filter and, for Latvia, Lithuania and Cyprus only, have a
\* letter of the set in company, title or description (case ignored, absent
\* fields empty); for Ukraine every row that passes the stopword filter stays.
C7_LanguageFilter ==
  (pc = "scrape_all" /\ ci > 0) =>
    LET flagged == LatestCountry \in { "Latvia", "Lithuania", "Cyprus" }
        passed  == SelectSeq(raw, LAMBDA job : ~StopwordHit(job))
        batch   == all_jobs[ci]
    IN  /\ Untagged(batch) =
             (IF flagged THEN SelectSeq(passed, LooksRuUa) ELSE passed)
        /\ \A r \in 1..Len(batch) :
             /\ batch[r].search_info.country = LatestCountry
             /\ batch[r].search_info.filter_language = flagged

\* C7 happens: a call for Latvia got a row without a description and a row
\* with an upper-case Cyrillic description, and kept the second one only
C7_Witness ==
  /\ pc = "scrape_all"
  /\ ci > 0
  /\ LatestCountry = "Latvia"
  /\ Len(raw) = 2
  /\ "description" \notin DOMAIN raw[1]
  /\ "description" \in DOMAIN raw[2]
  /\ raw[2].description = <<1055, 1056, 1048, 1042, 1030, 1058>>
  /\ Untagged(all_jobs[ci]) = << raw[2] >>

\* the lines a step has added to the console
Added == SubSeq(console', Len(console) + 1, Len(console'))

CountColor(lines, color) == Cardinality({ i \in 1..Len(lines) : lines[i].color = color })

ScrapeStep == ci' = ci + 1

GateStep == ji' = ji + 1

\* the latest call was made with filter_language set
LatestFlagged == ClaimedCountryOrder[((ci' - 1) % 4) + 1] # "Ukraine"

PassedStopwords == SelectSeq(raw', LAMBDA job : ~StopwordHit(job))

\* C8 as claimed: every decision is reported.  A call prints its three
\* progress lines, a line for each row the stopword filter decides and,
\* when the language heuristic runs, its summary and a line for each row the
\* heuristic decides; every posting the write gate handles (skipped for the
\* skip or current directory, skipped because the file is there, or written)
\* adds a line.
C8_EveryDecisionReported ==
  [][ /\ ScrapeStep =>
           Len(Added) >= 3 + Len(raw')
                           + (IF LatestFlagged THEN 1 + Len(PassedStopwords) ELSE 0)
      /\ GateStep => Len(Added) >= 1 ]_vars

\* C8 amended: a line is printed for each row the stopword filter drops
\* (gray) or keeps, for each row the language heuristic keeps, and for each
\* posting the write gate skips for the skip or the current directory; a row
\* the heuristic drops, a posting whose file is already there and a posting
\* that is written add no line.
C8_ReportedDecisions ==
  [][ /\ ScrapeStep =>
           /\ CountColor(Added, "GRAY") = Len(raw') - Len(PassedStopwords)
           /\ CountColor(Added, "YELLOW GREEN BLUE") = Len(PassedStopwords)
           /\ CountColor(Added, "GREEN") = (IF LatestFlagged THEN Len(all_jobs'[ci']) ELSE 0)
           /\ Len(Added) = 3 + Len(raw') + (IF LatestFlagged THEN 1 + Len(all_jobs'[ci']) ELSE 0)
      /\ GateStep =>
           LET filename == generate_filename(jobs[ji'])
           IN  IF filename \in skip_filenames
               THEN Added = << [color |-> "GRAY", msg |-> SkipMsg, args |-> << filename >>] >>
               ELSE IF filename \in current_filenames
               THEN Added = << [color |-> "GRAY", msg |-> CurrentMsg, args |-> << filename >>] >>
               ELSE Added = << >> ]_vars

\* C8 happens: a finished run in which the heuristic dropped a row that had
\* passed the stopword filter, one file was written and no skip was printed
C8_Witness ==
  /\ pc = "done"
  /\ Len(writes) = 1
  /\ \A l \in 1..Len(console) : console[l].msg \notin { SkipMsg, CurrentMsg }
  /\ \E l \in 2..Len(console) :
       /\ console[l].msg = "After language filtering: {len(jobs)} jobs remain"
       /\ console[l].args = << 0 >>
       /\ console[l - 1].color = "YELLOW GREEN BLUE"

\* "{company} - {title} - {source}", each absent field as "Unknown"
NamingText(job) ==
  (IF "company" \in DOMAIN job THEN job["company"] ELSE <<85, 110, 107, 110, 111, 119, 110>>) \o <<32, 45, 32>> \o (IF "title" \in DOMAIN job THEN job["title"] ELSE <<85, 110, 107, 110, 111, 119, 110>>)
    \o <<32, 45, 32>> \o (IF "site" \in DOMAIN job THEN job["site"] ELSE <<85, 110, 107, 110, 111, 119, 110>>)

\* the texts of a sequence, one after the other
RECURSIVE Flattened(_)
Flattened(texts) ==
  IF texts = << >> THEN << >> ELSE Head(texts) \o Flattened(Tail(texts))

\* a text without its leading and trailing whitespace
Trimmed(t) ==
  LET solid == { i \in 1..Len(t) : ~IsSpace(t[i]) }
  IN  IF solid = {} THEN << >>
      ELSE SubSeq(t, CHOOSE i \in solid : \A j \in solid : i <= j,
                     CHOOSE i \in solid : \A j \in solid : i >= j)

\* illegal characters and line breaks all removed
RemovedImage(c) == IF c \in IllegalChars \cup { 10, 13 } THEN << >> ELSE << c >>

\* illegal characters and carriage returns removed, a newline turned into a space
SpacedImage(c) ==
  IF c = 10 THEN << 32 >> ELSE IF c \in IllegalChars \cup { 13 } THEN << >> ELSE << c >>

SameNaming(a, b) ==
  \A key \in { "company", "title", "site" } :
    /\ (key \in DOMAIN a) = (key \in DOMAIN b)
    /\ key \in DOMAIN a => a[key] = b[key]

\* C9 as claimed: the filename is "{company} - {title} - {source}" with
\* absent fields as "Unknown", every illegal character, newline and carriage
\* return removed, whitespace trimmed at both ends and ".md" appended.
C9_LineBreaksRemoved ==
  pc = "named" =>
    output = Trimmed(Flattened([i \in 1..Len(NamingText(input)) |-> RemovedImage(NamingText(input)[i])])) \o <<46, 109, 100>>

\* C9 amended: the filename is "{company} - {title} - {source}" with absent
\* fields as "Unknown", every illegal character and carriage return removed,
\* every newline replaced by a space, whitespace trimmed at both ends and
\* ".md" appended; it holds no illegal character and no line break, and
\* postings that differ only in description or URL get the same filename.
C9_Filename ==
  pc = "named" =>
    /\ output = Trimmed(Flattened([i \in 1..Len(NamingText(input)) |-> SpacedImage(NamingText(input)[i])])) \o <<46, 109, 100>>
    /\ \A i \in 1..Len(output) : output[i] \notin IllegalChars \cup { 10, 13 }
    /\ \A d, u \in { Absent, << 120 >>, << 121 >> } :
         LET other == [k \in (DOMAIN input \ { "description", "job_url" })
                                \cup (IF d = Absent THEN { } ELSE { "description" })
                                \cup (IF u = Absent THEN { } ELSE { "job_url" }) |->
                         IF k = "description" THEN d
                         ELSE IF k = "job_url" THEN u ELSE input[k]]
         IN  SameNaming(input, other) /\ generate_filename(other) = output

\* C9 happens: company "A", a title that is one newline, no source: the
\* newline is left as a space between the two separators
C9_Witness ==
  /\ pc = "named"
  /\ DOMAIN input = { "company", "title" }
  /\ input.company = << 65 >>
  /\ input.title = << 10 >>
  /\ output = <<65, 32, 45, 32, 32, 32, 45, 32, 85, 110, 107, 110, 111, 119, 110, 46, 109, 100>>

\* the lines of a text: the pieces between its newlines
LineBounds(t) ==
  LET breaks == { i \in 1..Len(t) : t[i] = 10 }
      starts == { 1 } \cup { i + 1 : i \in breaks }
  IN  { << s, CHOOSE e \in (breaks \cup { Len(t) + 1 }) :
                  e >= s /\ \A b \in breaks : b >= s => e <= b >> : s \in starts }

\* a line with its trailing whitespace cut off
RightTrimmed(t, bound) ==
  LET solid == { i \in bound[1]..(bound[2] - 1) : ~IsSpace(t[i]) }
  IN  IF solid = {} THEN << >>
      ELSE SubSeq(t, bound[1], CHOOSE i \in solid : \A j \in solid : i >= j)

\* the starts of the lines the cleaning keeps: every non-blank line, and a
\* blank line when it lies between two non-blank lines and follows a
\* non-blank one directly
KeptBounds(t) ==
  LET bounds   == LineBounds(t)
      solid(b) == RightTrimmed(t, b) # << >>
  IN  { b \in bounds :
          \/ solid(b)
          \/ /\ \E p \in bounds : p[2] + 1 = b[1] /\ solid(p)
             /\ \E n \in bounds : n[1] > b[1] /\ solid(n) }

RECURSIVE JoinBounds(_, _)
JoinBounds(t, bounds) ==
  IF bounds = {} THEN << >>
  ELSE LET first == CHOOSE b \in bounds : \A o \in bounds : b[1] <= o[1]
           rest  == bounds \ { first }
       IN  RightTrimmed(t, first)
             \o (IF rest = {} THEN << >> ELSE << 10 >> \o JoinBounds(t, rest))

BlankLineAt(t, b) == \A i \in b[1]..(b[2] - 1) : IsSpace(t[i])

\* C10: clean_description returns the right-trimmed lines of the input in
\* order, all non-blank ones and one blank line for each run of blank lines
\* between two non-blank ones; the result neither starts nor ends with a
\* blank line, has no two blank lines in a row, and cleaning it again
\* changes nothing.
C10_CleanDescription ==
  pc = "cleaned" =>
    /\ output = JoinBounds(input, KeptBounds(input))
    /\ output # << >> =>
         LET bounds == LineBounds(output)
         IN  /\ \A b \in bounds :
                  (b[1] = 1 \/ b[2] = Len(output) + 1) => ~BlankLineAt(output, b)
             /\ \A b, n \in bounds :
                  b[2] + 1 = n[1] => ~(BlankLineAt(output, b) /\ BlankLineAt(output, n))
    /\ clean_description(output) = output

\* C10 happens: "\n\nHello\n\n\nWorld\n\n" cleans to "Hello\n\nWorld"
C10_Witness ==
  /\ pc = "cleaned"
  /\ input = <<10, 10, 72, 101, 108, 108, 111, 10, 10, 10, 87, 111, 114, 108, 100, 10, 10>>
  /\ output = <<72, 101, 108, 108, 111, 10, 10, 87, 111, 114, 108, 100>>

====
